---- MODULE Spec2Model ----
(***************************************************************************)
(* Agent assignment engine of callfairy.apps.accounts: the Agent table,   *)
(* the cached User.role column, Agent.assign_agent / Agent.revoke_agent,  *)
(* the template agent_revoke_view, deletion of an Agent row, and the      *)
(* pre_save / post_save / post_delete receivers of signals.py; the        *)
(* AgentPermissions table with grant_permission / revoke_permission and   *)
(* the permission packages of agent_assign_view.                          *)
(*                                                                         *)
(* The store runs in autocommit mode (no transaction.atomic anywhere in   *)
(* the sources), so every ORM statement is one atomic step and the        *)
(* statements of concurrently running requests interleave.                *)
(***************************************************************************)
EXTENDS Integers, Sequences, FiniteSets, TLC

VARIABLES agents, role, nextId, clock, proc,
          agentPerms, nextPermId, catalog, direct, members, orgActive

\* the Permission, AgentPermissions, UserPermissionAccess and
\* UserOrganisation tables and Organisation.is_active
perms == <<agentPerms, nextPermId, catalog, direct, members, orgActive>>

vars == <<agents, role, nextId, clock, proc, perms>>

--------------------------------------------------------------------------
(* Bounds and universes *)

\* number of operations ever started when they run one after the other;
\* bounds the timestamps (1..MaxOps) and the Agent rows ever inserted
MaxOps == 3
\* number of operations ever started when they run concurrently
MaxConcOps == 2

\* number of operations ever started in the specification of the permission
\* grants
MaxPermOps == 3

Users == {"u1", "u2"}
Orgs == {"o1", "o2"}
\* the acting SuperAdmin (request.user) of an operation
Admins == {"admin"}
\* concurrently running request handlers
Procs == {"p1", "p2"}

\* User.ROLE_CHOICES
Roles == {"user", "superuser", "superadmin"}

\* SQL NULL of a nullable foreign key / the absence of a value
NULL == "-"

\* the Permission rows seed_permissions creates, as far as the permission
\* packages name them
Seeded == {"manage_organisation", "view_users", "view_reports"}
\* a key no Permission row has
NoSuchKey == "no_such_key"
\* the permission arguments of grant_permission / revoke_permission calls
GrantKeys == {"view_users", NoSuchKey}
\* the permission_key arguments of check_user_permission
QueryKeys == {"view_users", "view_reports", NoSuchKey}
\* basic_permissions of grant_basic_agent_permissions
basic_permissions == <<"manage_organisation", "view_users", "view_reports">>

\* the value of a row image that holds no row
NoRow ==
  [user |-> NULL, organisation |-> NULL, assigned_at |-> 0, assigned_by |-> NULL,
   is_active |-> FALSE, revoked_at |-> 0, revoked_by |-> NULL]

\* the local state of a request handler that runs no operation
Idle ==
  [pc |-> "idle", op |-> NULL, user |-> NULL, org |-> NULL, by |-> NULL,
   phase |-> NULL, todo |-> <<>>, curId |-> 0, cur |-> NoRow,
   memRole |-> NULL, paramRole |-> NULL, newId |-> 0, status |-> NULL,
   key |-> NULL, isStr |-> FALSE, keys |-> <<>>, result |-> NULL,
   preAgents |-> <<>>, preRole |-> <<>>, prePerms |-> <<>>]

--------------------------------------------------------------------------
(* Queries on the Agent table *)

\* Agent.objects.filter(user=u, is_active=True)
ActiveOfUser(rows, u) ==
  {i \in DOMAIN rows : rows[i].user = u /\ rows[i].is_active}

\* Agent.objects.filter(organisation=o, is_active=True)
ActiveOfOrg(rows, o) ==
  {i \in DOMAIN rows : rows[i].organisation = o /\ rows[i].is_active}

\* User.is_agent(): _is_agent_cache is never set, so it is the EXISTS query
is_agent(rows, u) == ActiveOfUser(rows, u) # {}

\* User.get_managed_organisation(): the organisation of the first active row
\* of u in Meta.ordering, None when u is no agent
get_managed_organisation(rows, u) ==
  IF ~is_agent(rows, u) THEN NULL
  ELSE LET S == ActiveOfUser(rows, u)
           first == CHOOSE i \in S : \A j \in S :
                      \/ rows[j].assigned_at < rows[i].assigned_at
                      \/ rows[j].assigned_at = rows[i].assigned_at /\ j <= i
       IN rows[first].organisation

\* AssignAgentSerializer.validate, after both objects are found: the active
\* assignment of the user (Agent.get_agent_for_user) must not be for another
\* organisation
validate_passes(rows, u, o) == "ok"
validate(rows, u, o) ==
  LET managed_org == get_managed_organisation(rows, u)
  IN IF managed_org # NULL /\ managed_org # o THEN "ValidationError" ELSE "ok"

\* the greatest id of a non-empty set of ids
MaxOf(S) == CHOOSE i \in S : \A j \in S : j <= i

\* a queryset's result cache: the rows of ids S as read now, newest first
\* (Meta.ordering = ['-assigned_at'])
RECURSIVE Fetch(_, _)
Fetch(rows, S) ==
  IF S = {} THEN <<>>
  ELSE LET i == MaxOf(S) IN <<[id |-> i, row |-> rows[i]]>> \o Fetch(rows, S \ {i})

\* the two conditional UniqueConstraints of Agent.Meta, checked by the store
\* when the row (id, r) is written
ConstraintsAllowNoOrg(rows, id, r) ==
  r.is_active => ActiveOfUser(rows, r.user) \subseteq {id}
ConstraintsAllowNoUser(rows, id, r) ==
  r.is_active => ActiveOfOrg(rows, r.organisation) \subseteq {id}
ConstraintsAllow(rows, id, r) ==
  r.is_active =>
    /\ ActiveOfOrg(rows, r.organisation) \subseteq {id}
    /\ ActiveOfUser(rows, r.user) \subseteq {id}

--------------------------------------------------------------------------
(* The role receivers and User.sync_role_with_agent_status, as functions of
   the role held by the in-memory User object and of what the queries saw *)

\* User.sync_role_with_agent_status: the role the object holds afterwards
sync_role_with_agent_status(r, is_agent_now) ==
  IF is_agent_now /\ r # "superuser" THEN "superuser"
  ELSE IF ~is_agent_now /\ r = "superuser" THEN "user"
  ELSE r

\* pre_save receiver: the role of instance.user afterwards
sync_user_role_on_agent_revoke_off(old_active, new_active, other_active_agents, r) == r
sync_user_role_on_agent_revoke(old_active, new_active, other_active_agents, r) ==
  IF old_active /\ ~new_active /\ ~other_active_agents /\ r = "superuser"
  THEN "user" ELSE r

\* post_save receiver: the role of instance.user afterwards
sync_user_role_on_agent_assign(new_active, r) ==
  IF new_active /\ r # "superuser" THEN "superuser" ELSE r

\* post_delete receiver: the role of instance.user afterwards
sync_user_role_on_agent_delete_off(has_other_agents, r) == r
sync_user_role_on_agent_delete(has_other_agents, r) ==
  IF ~has_other_agents /\ r = "superuser" THEN "user" ELSE r

--------------------------------------------------------------------------
(* Row images built in memory before a save *)

\* assign_agent's loops and revoke_agent: is_active, revoked_at, revoked_by
DeactivatedNoRevoker(r, now, by) ==
  [r EXCEPT !.is_active = FALSE, !.revoked_at = now]
DeactivatedStillActive(r, now, by) ==
  [r EXCEPT !.revoked_at = now, !.revoked_by = by]
Deactivated(r, now, by) ==
  [r EXCEPT !.is_active = FALSE, !.revoked_at = now, !.revoked_by = by]

\* agent_revoke_view: is_active and revoked_by only
ViewDeactivated(r, by) ==
  [r EXCEPT !.is_active = FALSE, !.revoked_by = by]

\* cls.objects.create(user, organisation, assigned_by, is_active=True)
NewAgent(u, o, by, now) ==
  [user |-> u, organisation |-> o, assigned_at |-> now, assigned_by |-> by,
   is_active |-> TRUE, revoked_at |-> 0, revoked_by |-> NULL]

--------------------------------------------------------------------------
(* Control flow shared by the operations *)

Finish(r, st) == [r EXCEPT !.pc = "done", !.status = st]

\* the head of a for-loop over a fetched queryset: the next agent is
\* deactivated in memory and its save() starts, or the loop is over
NextItem(r, now) ==
  IF r.todo = <<>>
  THEN [r EXCEPT !.pc = IF r.phase = "org" THEN "a_q2" ELSE "a_ins"]
  ELSE [r EXCEPT !.pc = "s_old",
                 !.curId = Head(r.todo).id,
                 !.cur = Deactivated(Head(r.todo).row, now, r.by),
                 !.memRole = NULL,
                 !.todo = Tail(r.todo)]

\* what follows agent.save() in each caller
AfterSave(r, now) ==
  CASE r.phase \in {"org", "rev"} ->
         [r EXCEPT !.pc = IF r.memRole = NULL THEN "y_ld" ELSE "y_isa"]
    [] r.phase = "usr" -> NextItem(r, now)
    [] OTHER -> Finish(r, "ok")

\* what follows agent.user.sync_role_with_agent_status() in each caller
AfterSync(r, now) ==
  IF r.phase = "org" THEN NextItem(r, now) ELSE Finish(r, "ok")

--------------------------------------------------------------------------
(* Store writes *)

\* UPDATE of the columns of row id, INSERT when the UPDATE matched no row
\* (Model.save() without force_update)
WriteRow(rows, id, r) == (id :> r) @@ rows

\* DELETE of row id
RemoveRow(rows, id) == [i \in DOMAIN rows \ {id} |-> rows[i]]

\* user.save(update_fields=['role'])
WriteRole(roles, u, r) == [roles EXCEPT ![u] = r]

Set(p, r) == proc' = [proc EXCEPT ![p] = r]

--------------------------------------------------------------------------
(* The AgentPermissions table: rows [agent, permission, granted_by] by id *)

\* AgentPermissions.objects.filter(agent=a, permission=k)
GrantsOf(rows, a, k) ==
  {i \in DOMAIN rows : rows[i].agent = a /\ rows[i].permission = k}

\* AgentPermissions.objects.filter(agent=a)
GrantsOfAgent(rows, a) == {i \in DOMAIN rows : rows[i].agent = a}

\* cls.objects.get_or_create(agent, permission, defaults={'granted_by': by}):
\* the table afterwards; the row is inserted under id only when the SELECT
\* finds none
always_create(rows, id, a, k, by) ==
  (id :> [agent |-> a, permission |-> k, granted_by |-> by]) @@ rows
get_or_create(rows, id, a, k, by) ==
  IF GrantsOf(rows, a, k) # {} THEN rows
  ELSE (id :> [agent |-> a, permission |-> k, granted_by |-> by]) @@ rows

\* cls.objects.filter(agent=a, permission=k).delete()
DeleteGrants(rows, a, k) ==
  [i \in DOMAIN rows \ GrantsOf(rows, a, k) |-> rows[i]]

\* on_delete=CASCADE of AgentPermissions.agent
CascadeAgent(rows, a) ==
  [i \in DOMAIN rows \ GrantsOfAgent(rows, a) |-> rows[i]]

\* User.get_agent_permissions(): the keys granted to the user's active row
\* (Agent.objects.get finds one row: unique_active_agent_per_user)
get_agent_permissions_any_row(rows, grants, u) ==
  {grants[i].permission :
     i \in {j \in DOMAIN grants : \E a \in DOMAIN rows :
                                    rows[a].user = u /\ grants[j].agent = a}}
get_agent_permissions(rows, grants, u) ==
  IF ~is_agent(rows, u) THEN {}
  ELSE LET a == CHOOSE i \in ActiveOfUser(rows, u) : TRUE
       IN {grants[i].permission : i \in GrantsOfAgent(grants, a)}

--------------------------------------------------------------------------
(* Permission resolution: User.get_direct_permissions, get_all_permissions,
   has_permission and utils.permissions.check_user_permission, as functions
   of the tables; d is the UserPermissionAccess table as a set of
   <<user, key>> pairs (unique_together) *)

get_direct_permissions_none(d, u) == {}
get_direct_permissions(d, u) == {e[2] : e \in {x \in d : x[1] = u}}

get_all_permissions(rows, grants, d, u) ==
  get_direct_permissions(d, u) \cup get_agent_permissions(rows, grants, u)

has_permission(roles, rows, grants, d, u, k) ==
  IF roles[u] = "superadmin" THEN TRUE
  ELSE k \in get_all_permissions(rows, grants, d, u)

\* check_user_permission(user, permission_key, organisation); o = NULL is
\* organisation=None
check_no_bypass(roles, rows, grants, d, u, k, o) ==
  IF o # NULL /\ is_agent(rows, u)
  THEN LET managed_org == get_managed_organisation(rows, u)
       IN IF managed_org # NULL /\ managed_org = o
          THEN has_permission(roles, rows, grants, d, u, k)
          ELSE FALSE
  ELSE has_permission(roles, rows, grants, d, u, k)
check_any_org(roles, rows, grants, d, u, k, o) ==
  has_permission(roles, rows, grants, d, u, k)
check_user_permission(roles, rows, grants, d, u, k, o) ==
  IF roles[u] = "superadmin" THEN TRUE
  ELSE IF o # NULL /\ is_agent(rows, u)
  THEN LET managed_org == get_managed_organisation(rows, u)
       IN IF managed_org # NULL /\ managed_org = o
          THEN has_permission(roles, rows, grants, d, u, k)
          ELSE FALSE
  ELSE has_permission(roles, rows, grants, d, u, k)

--------------------------------------------------------------------------
(* Organisation resolution of utils.permissions and the object gate of
   permissions.py; mem is the UserOrganisation table as a set of
   <<user, organisation>> pairs (unique_together), act is
   Organisation.is_active, cat the keys of the Permission table *)

\* get_user_accessible_organisations(user)
accessible_with_memberships(roles, rows, mem, act, u) ==
  IF roles[u] = "superadmin" THEN {o \in Orgs : act[o]}
  ELSE {o \in Orgs : act[o] /\ (<<u, o>> \in mem \/ o = get_managed_organisation(rows, u))}
get_user_accessible_organisations(roles, rows, mem, act, u) ==
  IF roles[u] = "superadmin" THEN {o \in Orgs : act[o]}
  ELSE IF is_agent(rows, u)
  THEN LET managed_org == get_managed_organisation(rows, u)
       IN IF managed_org # NULL
          THEN {o \in Orgs : o = managed_org /\ act[o]}
          ELSE {}
  ELSE {o \in Orgs : <<u, o>> \in mem /\ act[o]}

\* can_user_access_organisation(user, organisation)
can_user_access_organisation(roles, rows, mem, act, u, o) ==
  o \in get_user_accessible_organisations(roles, rows, mem, act, u)

\* get_user_permissions_for_organisation(user, organisation)
permissions_for_organisation_all(roles, rows, grants, d, cat, u, o) ==
  IF roles[u] = "superadmin" THEN cat
  ELSE get_all_permissions(rows, grants, d, u)
get_user_permissions_for_organisation(roles, rows, grants, d, cat, u, o) ==
  IF roles[u] = "superadmin" THEN cat
  ELSE IF is_agent(rows, u)
  THEN LET managed_org == get_managed_organisation(rows, u)
       IN IF managed_org # NULL /\ managed_org = o
          THEN get_agent_permissions(rows, grants, u)
          ELSE {}
  ELSE get_direct_permissions(d, u)

\* can_user_manage_organisation(user, organisation), as a truth value
can_manage_any_row(roles, rows, u, o) ==
  \/ roles[u] = "superadmin"
  \/ \E i \in DOMAIN rows : rows[i].user = u /\ rows[i].organisation = o
can_user_manage_organisation(roles, rows, u, o) ==
  IF roles[u] = "superadmin" THEN TRUE
  ELSE IF is_agent(rows, u)
  THEN LET managed_org == get_managed_organisation(rows, u)
       IN managed_org # NULL /\ managed_org = o
  ELSE FALSE

\* CanAccessOrganisation.has_object_permission(request, view, obj) for an
\* Organisation (or an object with an organisation relation) o
has_object_permission(roles, rows, mem, act, u, o) ==
  IF roles[u] = "superadmin" THEN TRUE
  ELSE can_user_access_organisation(roles, rows, mem, act, u, o)

--------------------------------------------------------------------------
(* Initial state: roles as created by registration ('user') and by
   setup_roles --create-superadmin ('superadmin'); the Agent table is empty,
   or holds the one row a first assign_agent(u1, o1, admin) has left, with u1
   upgraded by it (the other choices of user and organisation are the same
   up to renaming) *)

\* the Agent table and the roles
InitAgents ==
  \/ /\ agents = <<>>
     /\ nextId = 1
     /\ role \in [Users -> {"user", "superadmin"}]
  \/ \E u \in {"u1"}, o \in {"o1"}, by \in Admins :
       /\ agents = WriteRow(<<>>, 1, NewAgent(u, o, by, 0))
       /\ nextId = 2
       /\ role \in {f \in [Users -> Roles] :
                      /\ f[u] = "superuser"
                      /\ \A v \in Users \ {u} : f[v] \in {"user", "superadmin"}}

\* no permission granted yet, the catalogue seeded
Init ==
  /\ clock = 0
  /\ proc = [p \in Procs |-> Idle]
  /\ InitAgents
  /\ agentPerms = <<>>
  /\ nextPermId = 1
  /\ catalog = Seeded
  /\ direct = {}
  /\ members = {}
  /\ orgActive = [o \in Orgs |-> TRUE]

--------------------------------------------------------------------------
(* Entry of the operations. The caller loads the User it passes to
   assign_agent just before the call (AssignAgentSerializer.validate,
   agent_assign_view). *)

CallAssign(p, u, o, by) ==
  /\ proc[p].pc = "idle"
  /\ clock' = clock + 1
  /\ proc' = [proc EXCEPT ![p] =
       [Idle EXCEPT !.pc = "a_q1", !.op = "assign_agent", !.user = u, !.org = o,
                    !.by = by, !.paramRole = role[u],
                    !.preAgents = agents, !.preRole = role,
                    !.prePerms = agentPerms]]
  /\ UNCHANGED <<agents, role, nextId, perms>>

CallRevoke(p, id, by) ==
  /\ proc[p].pc = "idle"
  /\ clock' = clock + 1
  /\ proc' = [proc EXCEPT ![p] =
       [Idle EXCEPT !.pc = "r_get", !.op = "revoke_agent", !.curId = id, !.by = by,
                    !.preAgents = agents, !.preRole = role,
                    !.prePerms = agentPerms]]
  /\ UNCHANGED <<agents, role, nextId, perms>>

CallRevokeView(p, u, by) ==
  /\ proc[p].pc = "idle"
  /\ clock' = clock + 1
  /\ proc' = [proc EXCEPT ![p] =
       [Idle EXCEPT !.pc = "v_get", !.op = "agent_revoke_view", !.user = u, !.by = by,
                    !.preAgents = agents, !.preRole = role,
                    !.prePerms = agentPerms]]
  /\ UNCHANGED <<agents, role, nextId, perms>>

\* AssignAgentView.post: the request of a superadmin, validated first
CallAssignView(p, u, o, by) ==
  /\ proc[p].pc = "idle"
  /\ clock' = clock + 1
  /\ proc' = [proc EXCEPT ![p] =
       [Idle EXCEPT !.pc = "v_val", !.op = "AssignAgentView", !.user = u, !.org = o,
                    !.by = by, !.paramRole = role[u],
                    !.preAgents = agents, !.preRole = role,
                    !.prePerms = agentPerms]]
  /\ UNCHANGED <<agents, role, nextId, perms>>

CallDelete(p, id) ==
  /\ proc[p].pc = "idle"
  /\ clock' = clock + 1
  /\ proc' = [proc EXCEPT ![p] =
       [Idle EXCEPT !.pc = "d_del", !.op = "delete", !.curId = id,
                    !.preAgents = agents, !.preRole = role,
                    !.prePerms = agentPerms]]
  /\ UNCHANGED <<agents, role, nextId, perms>>

Return(p) ==
  /\ proc[p].pc = "done"
  /\ proc' = [proc EXCEPT ![p] = Idle]
  /\ UNCHANGED <<agents, role, nextId, clock, perms>>

--------------------------------------------------------------------------
(* agent.save() of an existing row: the pre_save receiver
   sync_user_role_on_agent_revoke, statement by statement, then the UPDATE *)

\* old_instance = Agent.objects.get(pk=instance.pk)
SaveGetOld(p) ==
  LET r == proc[p]
      old_active == r.curId \in DOMAIN agents /\ agents[r.curId].is_active
  IN /\ r.pc = "s_old"
     /\ Set(p, [r EXCEPT !.pc = IF old_active /\ ~r.cur.is_active
                                 THEN "s_usr" ELSE "s_upd"])
     /\ UNCHANGED <<agents, role, nextId, clock, perms>>

\* user = instance.user (the related User is fetched and cached on the agent)
SaveLoadUser(p) ==
  LET r == proc[p] IN
  /\ r.pc = "s_usr"
  /\ Set(p, [r EXCEPT !.pc = "s_oth", !.memRole = role[r.cur.user]])
  /\ UNCHANGED <<agents, role, nextId, clock, perms>>

\* other_active_agents = ...filter(user, is_active=True).exclude(pk).exists()
SaveOtherActive(p) ==
  LET r == proc[p]
      other == ActiveOfUser(agents, r.cur.user) \ {r.curId} # {}
      new == sync_user_role_on_agent_revoke(TRUE, r.cur.is_active, other, r.memRole)
  IN /\ r.pc = "s_oth"
     /\ Set(p, [r EXCEPT !.pc = IF new # r.memRole THEN "s_dwn" ELSE "s_upd",
                         !.memRole = new])
     /\ UNCHANGED <<agents, role, nextId, clock, perms>>

\* user.save(update_fields=['role']) of the receiver
SaveDowngrade(p) ==
  LET r == proc[p] IN
  /\ r.pc = "s_dwn"
  /\ role' = WriteRole(role, r.cur.user, r.memRole)
  /\ Set(p, [r EXCEPT !.pc = "s_upd"])
  /\ UNCHANGED <<agents, nextId, clock, perms>>

\* the UPDATE itself; the rows saved here are inactive, so neither the
\* constraints nor the post_save receiver (is_active only) act on them
SaveUpdateDeletes(p) ==
  LET r == proc[p] IN
  /\ r.pc = "s_upd"
  /\ agents' = RemoveRow(agents, r.curId)
  /\ Set(p, AfterSave(r, clock))
  /\ UNCHANGED <<role, nextId, clock, perms>>
SaveUpdate(p) ==
  LET r == proc[p] IN
  /\ r.pc = "s_upd"
  /\ IF ConstraintsAllow(agents, r.curId, r.cur)
     THEN /\ agents' = WriteRow(agents, r.curId, r.cur)
          /\ Set(p, AfterSave(r, clock))
     ELSE /\ agents' = agents
          /\ Set(p, Finish(r, "IntegrityError"))
  /\ UNCHANGED <<role, nextId, clock, perms>>

--------------------------------------------------------------------------
(* agent.user.sync_role_with_agent_status() *)

\* agent.user, when the receiver has not fetched it yet
SyncLoadUser(p) ==
  LET r == proc[p] IN
  /\ r.pc = "y_ld"
  /\ Set(p, [r EXCEPT !.pc = "y_isa", !.memRole = role[r.cur.user]])
  /\ UNCHANGED <<agents, role, nextId, clock, perms>>

\* is_agent_now = self.is_agent()
SyncIsAgentNoQuery(p) ==
  LET r == proc[p]
      new == sync_role_with_agent_status(r.memRole, FALSE)
  IN /\ r.pc = "y_isa"
     /\ role' = WriteRole(role, r.cur.user, new)
     /\ Set(p, AfterSync(r, clock))
     /\ UNCHANGED <<agents, nextId, clock, perms>>
SyncIsAgent(p) ==
  LET r == proc[p]
      new == sync_role_with_agent_status(r.memRole, is_agent(agents, r.cur.user))
  IN /\ r.pc = "y_isa"
     /\ Set(p, IF new # r.memRole
               THEN [r EXCEPT !.pc = "y_wr", !.memRole = new]
               ELSE AfterSync(r, clock))
     /\ UNCHANGED <<agents, role, nextId, clock, perms>>

\* self.save(update_fields=['role'])
SyncWrite(p) ==
  LET r == proc[p] IN
  /\ r.pc = "y_wr"
  /\ role' = WriteRole(role, r.cur.user, r.memRole)
  /\ Set(p, AfterSync(r, clock))
  /\ UNCHANGED <<agents, nextId, clock, perms>>

--------------------------------------------------------------------------
(* Agent.assign_agent *)

\* for agent in cls.objects.filter(organisation=organisation, is_active=True)
AssignQueryOrg(p) ==
  LET r == proc[p] IN
  /\ r.pc = "a_q1"
  /\ Set(p, NextItem([r EXCEPT !.phase = "org",
                               !.todo = Fetch(agents, ActiveOfOrg(agents, r.org))],
                     clock))
  /\ UNCHANGED <<agents, role, nextId, clock, perms>>

\* for agent in cls.objects.filter(user=user, is_active=True)
AssignQueryUser(p) ==
  LET r == proc[p] IN
  /\ r.pc = "a_q2"
  /\ Set(p, NextItem([r EXCEPT !.phase = "usr",
                               !.todo = Fetch(agents, ActiveOfUser(agents, r.user))],
                     clock))
  /\ UNCHANGED <<agents, role, nextId, clock, perms>>

\* new_agent = cls.objects.create(...): the INSERT, rejected by the store when
\* a conditional unique constraint fails (the IntegrityError leaves the call);
\* then the post_save receiver decides on the caller's User object
AssignCreateReactivates(p) ==
  LET r == proc[p]
      id == IF r.curId # 0 THEN r.curId ELSE nextId
      row == NewAgent(r.user, r.org, r.by, clock)
      new == sync_user_role_on_agent_assign(TRUE, r.paramRole)
  IN /\ r.pc = "a_ins"
     /\ IF ConstraintsAllow(agents, id, row)
        THEN /\ agents' = WriteRow(agents, id, row)
             /\ nextId' = IF id = nextId THEN nextId + 1 ELSE nextId
             /\ Set(p, [r EXCEPT !.pc = IF new # r.paramRole THEN "a_ps" ELSE "a_role",
                                 !.paramRole = new, !.newId = id])
        ELSE /\ UNCHANGED <<agents, nextId>>
             /\ Set(p, Finish(r, "IntegrityError"))
     /\ UNCHANGED <<role, clock, perms>>
AssignCreate(p) ==
  LET r == proc[p]
      row == NewAgent(r.user, r.org, r.by, clock)
      new == sync_user_role_on_agent_assign(TRUE, r.paramRole)
  IN /\ r.pc = "a_ins"
     /\ IF ConstraintsAllow(agents, nextId, row)
        THEN /\ agents' = WriteRow(agents, nextId, row)
             /\ nextId' = nextId + 1
             /\ Set(p, [r EXCEPT !.pc = IF new # r.paramRole THEN "a_ps" ELSE "a_role",
                                 !.paramRole = new, !.newId = nextId])
        ELSE /\ UNCHANGED <<agents, nextId>>
             /\ Set(p, Finish(r, "IntegrityError"))
     /\ UNCHANGED <<role, clock, perms>>

\* user.save(update_fields=['role']) of the post_save receiver
AssignSignalWrite(p) ==
  LET r == proc[p] IN
  /\ r.pc = "a_ps"
  /\ role' = WriteRole(role, r.user, r.paramRole)
  /\ Set(p, [r EXCEPT !.pc = "a_role"])
  /\ UNCHANGED <<agents, nextId, clock, perms>>

\* user.role = 'superuser'; user.save(update_fields=['role']); return new_agent
AssignSetRoleSkipped(p) ==
  /\ proc[p].pc = "a_role"
  /\ Set(p, Finish(proc[p], "ok"))
  /\ UNCHANGED <<agents, role, nextId, clock, perms>>
AssignSetRole(p) ==
  LET r == proc[p] IN
  /\ r.pc = "a_role"
  /\ role' = WriteRole(role, r.user, "superuser")
  /\ Set(p, Finish([r EXCEPT !.paramRole = "superuser"], "ok"))
  /\ UNCHANGED <<agents, nextId, clock, perms>>

--------------------------------------------------------------------------
(* Agent.revoke_agent, agent_revoke_view (POST), deletion of an Agent row *)

\* agent = cls.objects.get(id=agent_id), then the fields set before save()
RevokeGetKeepsStamp(p) ==
  LET r == proc[p] IN
  /\ r.pc = "r_get"
  /\ Set(p, IF r.curId \in DOMAIN agents
            THEN [r EXCEPT !.pc = "s_old", !.phase = "rev",
                           !.cur = IF agents[r.curId].is_active
                                   THEN Deactivated(agents[r.curId], clock, r.by)
                                   ELSE agents[r.curId]]
            ELSE Finish(r, "DoesNotExist"))
  /\ UNCHANGED <<agents, role, nextId, clock, perms>>
RevokeGet(p) ==
  LET r == proc[p] IN
  /\ r.pc = "r_get"
  /\ Set(p, IF r.curId \in DOMAIN agents
            THEN [r EXCEPT !.pc = "s_old", !.phase = "rev",
                           !.cur = Deactivated(agents[r.curId], clock, r.by)]
            ELSE Finish(r, "DoesNotExist"))
  /\ UNCHANGED <<agents, role, nextId, clock, perms>>

\* agent = get_object_or_404(Agent, user__id=agent_id, is_active=True)
ViewGet(p) ==
  LET r == proc[p]
      found == ActiveOfUser(agents, r.user)
  IN /\ r.pc = "v_get"
     /\ Set(p, IF Cardinality(found) = 1
               THEN LET id == MaxOf(found) IN
                    [r EXCEPT !.pc = "s_old", !.phase = "view", !.curId = id,
                              !.cur = ViewDeactivated(agents[id], r.by)]
               ELSE Finish(r, IF found = {} THEN "Http404"
                              ELSE "MultipleObjectsReturned"))
     /\ UNCHANGED <<agents, role, nextId, clock, perms>>

\* serializer.is_valid(raise_exception=True), then Agent.assign_agent(...)
ValidateAssign(p) ==
  LET r == proc[p] IN
  /\ r.pc = "v_val"
  /\ Set(p, IF validate(agents, r.user, r.org) = "ok"
            THEN [r EXCEPT !.pc = "a_q1"]
            ELSE Finish(r, "ValidationError"))
  /\ UNCHANGED <<agents, role, nextId, clock, perms>>

\* agent.delete(): the DELETE, with the AgentPermissions rows of the agent
DeleteRow(p) ==
  LET r == proc[p] IN
  /\ r.pc = "d_del"
  /\ IF r.curId \in DOMAIN agents
     THEN /\ agents' = RemoveRow(agents, r.curId)
          /\ agentPerms' = CascadeAgent(agentPerms, r.curId)
          /\ Set(p, [r EXCEPT !.pc = "d_usr", !.cur = agents[r.curId]])
     ELSE /\ UNCHANGED <<agents, agentPerms>>
          /\ Set(p, Finish(r, "DoesNotExist"))
  /\ UNCHANGED <<role, nextId, clock, nextPermId, catalog, direct, members, orgActive>>

\* post_delete receiver: user = instance.user
DeleteLoadUser(p) ==
  LET r == proc[p] IN
  /\ r.pc = "d_usr"
  /\ Set(p, [r EXCEPT !.pc = "d_oth", !.memRole = role[r.cur.user]])
  /\ UNCHANGED <<agents, role, nextId, clock, perms>>

\* post_delete receiver: has_other_agents = ...filter(user, is_active=True).exists()
DeleteOtherActive(p) ==
  LET r == proc[p]
      new == sync_user_role_on_agent_delete(is_agent(agents, r.cur.user), r.memRole)
  IN /\ r.pc = "d_oth"
     /\ Set(p, IF new # r.memRole
               THEN [r EXCEPT !.pc = "d_wr", !.memRole = new]
               ELSE Finish(r, "ok"))
     /\ UNCHANGED <<agents, role, nextId, clock, perms>>

\* post_delete receiver: user.save(update_fields=['role'])
DeleteDowngrade(p) ==
  LET r == proc[p] IN
  /\ r.pc = "d_wr"
  /\ role' = WriteRole(role, r.cur.user, r.memRole)
  /\ Set(p, Finish(r, "ok"))
  /\ UNCHANGED <<agents, nextId, clock, perms>>

--------------------------------------------------------------------------
(* AgentPermissions.grant_permission / revoke_permission and the permission
   package grant_basic_agent_permissions. The caller passes an Agent object
   it has loaded, and either a Permission object or a key string. *)

CallGrant(p, id, k, str, by) ==
  /\ proc[p].pc = "idle"
  /\ id \in DOMAIN agents
  /\ ~str => k \in catalog
  /\ clock' = clock + 1
  /\ proc' = [proc EXCEPT ![p] =
       [Idle EXCEPT !.pc = "k_get", !.op = "grant_permission", !.curId = id,
                    !.key = k, !.isStr = str, !.by = by,
                    !.preAgents = agents, !.preRole = role,
                    !.prePerms = agentPerms]]
  /\ UNCHANGED <<agents, role, nextId, perms>>

CallRevokePermission(p, id, k, str) ==
  /\ proc[p].pc = "idle"
  /\ id \in DOMAIN agents
  /\ ~str => k \in catalog
  /\ clock' = clock + 1
  /\ proc' = [proc EXCEPT ![p] =
       [Idle EXCEPT !.pc = "k_get", !.op = "revoke_permission", !.curId = id,
                    !.key = k, !.isStr = str,
                    !.preAgents = agents, !.preRole = role,
                    !.prePerms = agentPerms]]
  /\ UNCHANGED <<agents, role, nextId, perms>>

\* agent_assign_view calls the package on the row assign_agent has just
\* returned: an active row without grants
CallGrantBasic(p, id) ==
  /\ proc[p].pc = "idle"
  /\ id \in DOMAIN agents /\ agents[id].is_active
  /\ GrantsOfAgent(agentPerms, id) = {}
  /\ clock' = clock + 1
  /\ proc' = [proc EXCEPT ![p] =
       [Idle EXCEPT !.pc = "b_item", !.op = "grant_basic_agent_permissions",
                    !.curId = id, !.keys = basic_permissions,
                    !.preAgents = agents, !.preRole = role,
                    !.prePerms = agentPerms]]
  /\ UNCHANGED <<agents, role, nextId, perms>>

\* if isinstance(permission, str): permission = Permission.objects.get(key=permission)
\* (Permission.DoesNotExist leaves the method)
PermissionGetSwallows(p) ==
  LET r == proc[p] IN
  /\ r.pc = "k_get"
  /\ Set(p, IF r.isStr /\ r.key \notin catalog
            THEN Finish(r, "ok")
            ELSE [r EXCEPT !.pc = IF r.op = "grant_permission"
                                  THEN "g_goc" ELSE "x_del"])
  /\ UNCHANGED <<agents, role, nextId, clock, perms>>
PermissionGet(p) ==
  LET r == proc[p] IN
  /\ r.pc = "k_get"
  /\ Set(p, IF r.isStr /\ r.key \notin catalog
            THEN Finish(r, "DoesNotExist")
            ELSE [r EXCEPT !.pc = IF r.op = "grant_permission"
                                  THEN "g_goc" ELSE "x_del"])
  /\ UNCHANGED <<agents, role, nextId, clock, perms>>

\* agent_perm, created = cls.objects.get_or_create(...); return agent_perm
GrantGetOrCreate(p) ==
  LET r == proc[p] IN
  /\ r.pc = "g_goc"
  /\ agentPerms' = get_or_create(agentPerms, nextPermId, r.curId, r.key, r.by)
  /\ nextPermId' = IF agentPerms' = agentPerms THEN nextPermId ELSE nextPermId + 1
  /\ Set(p, Finish(r, "ok"))
  /\ UNCHANGED <<agents, role, nextId, clock, catalog, direct, members, orgActive>>

\* cls.objects.filter(agent=agent, permission=permission).delete()
RevokePermissionDelete(p) ==
  LET r == proc[p] IN
  /\ r.pc = "x_del"
  /\ agentPerms' = DeleteGrants(agentPerms, r.curId, r.key)
  /\ Set(p, Finish(r, "ok"))
  /\ UNCHANGED <<agents, role, nextId, clock, nextPermId, catalog, direct, members, orgActive>>

\* one round of the package's loop: Permission.objects.get(key=perm_key) and
\* get_or_create(agent, permission), or `pass` on Permission.DoesNotExist;
\* the function returns None after the last key
GrantBasicItem(p) ==
  LET r == proc[p]
      k == Head(r.keys)
      rest == [r EXCEPT !.keys = Tail(r.keys)]
  IN /\ r.pc = "b_item"
     /\ agentPerms' = IF k \in catalog
                       THEN get_or_create(agentPerms, nextPermId, r.curId, k, NULL)
                       ELSE agentPerms
     /\ nextPermId' = IF agentPerms' = agentPerms THEN nextPermId ELSE nextPermId + 1
     /\ Set(p, IF rest.keys = <<>> THEN Finish(rest, "ok") ELSE rest)
     /\ UNCHANGED <<agents, role, nextId, clock, catalog, direct, members, orgActive>>

--------------------------------------------------------------------------
(* Specifications *)

\* no other handler is running
Quiet(p) == \A q \in Procs \ {p} : proc[q].pc = "idle"

\* the statements of assign_agent and revoke_agent, but for the role write of
\* sync_role_with_agent_status
EngineStep(p) ==
  \/ SaveGetOld(p) \/ SaveLoadUser(p) \/ SaveOtherActive(p)
  \/ SaveDowngrade(p) \/ SaveUpdate(p)
  \/ SyncLoadUser(p) \/ SyncIsAgent(p)
  \/ AssignQueryOrg(p) \/ AssignQueryUser(p) \/ AssignCreate(p)
  \/ AssignSignalWrite(p) \/ AssignSetRole(p)
  \/ RevokeGet(p)
  \/ Return(p)

\* the statements of agent_revoke_view and of the deletion of an Agent row
OtherStep(p) ==
  \/ ViewGet(p) \/ ValidateAssign(p)
  \/ DeleteRow(p) \/ DeleteLoadUser(p) \/ DeleteOtherActive(p) \/ DeleteDowngrade(p)

\* assign_agent and revoke_agent calls of concurrent request handlers,
\* interleaved statement by statement
Next ==
  \E p \in Procs :
    \/ clock < MaxConcOps /\ \E u \in Users, o \in Orgs, by \in Admins : CallAssign(p, u, o, by)
    \/ clock < MaxConcOps /\ \E id \in 1..nextId, by \in Admins : CallRevoke(p, id, by)
    \/ EngineStep(p)
    \/ SyncWrite(p)

Spec == Init /\ [][Next]_vars

\* every operation that changes Agent rows, one after the other, each run to
\* completion before the next starts. SyncWrite is no disjunct: when
\* operations do not overlap the pre_save receiver has written the role
\* before sync_role_with_agent_status looks at it (SeqSyncNeverWrites).
SeqNext ==
  \E p \in Procs :
    \/ Quiet(p) /\ clock < MaxOps /\ \E u \in Users, o \in Orgs, by \in Admins : CallAssign(p, u, o, by)
    \/ Quiet(p) /\ clock < MaxOps /\ \E id \in 1..nextId, by \in Admins \cup {NULL} : CallRevoke(p, id, by)
    \/ Quiet(p) /\ clock < MaxOps /\ \E u \in Users, by \in Admins : CallRevokeView(p, u, by)
    \/ Quiet(p) /\ clock < MaxOps /\ \E id \in 1..nextId : CallDelete(p, id)
    \/ Quiet(p) /\ clock < MaxOps /\ \E u \in Users, o \in Orgs, by \in Admins : CallAssignView(p, u, o, by)
    \/ EngineStep(p)
    \/ OtherStep(p)

SeqSpec == Init /\ [][SeqNext]_vars

\* a request asks check_user_permission(user, permission_key, organisation)
\* and holds the answer
CallCheck(p, u, k, o) ==
  /\ proc[p].pc = "idle"
  /\ proc' = [proc EXCEPT ![p] =
       [Idle EXCEPT !.pc = "done", !.op = "check_user_permission",
                    !.user = u, !.key = k, !.org = o, !.status = "ok",
                    !.result = check_user_permission(role, agents, agentPerms,
                                                     direct, u, k, o)]]
  /\ UNCHANGED <<agents, role, nextId, clock, perms>>

\* the statements of the permission grants
PermStep(p) ==
  \/ PermissionGet(p) \/ GrantGetOrCreate(p) \/ RevokePermissionDelete(p)
  \/ GrantBasicItem(p)

\* the Permission table before and after seed_permissions has run
PermInit ==
  /\ clock = 0
  /\ proc = [p \in Procs |-> Idle]
  /\ InitAgents
  /\ agentPerms = <<>>
  /\ nextPermId = 1
  /\ catalog \in {{}, Seeded}
  /\ direct = {}
  /\ members = {}
  /\ orgActive = [o \in Orgs |-> TRUE]

\* assignments, revocations and permission grants, one after the other, and
\* permission checks between them
PermNext ==
  \E p \in Procs :
    \/ Quiet(p) /\ clock < MaxPermOps /\ \E u \in Users, o \in Orgs, by \in Admins : CallAssign(p, u, o, by)
    \/ Quiet(p) /\ clock < MaxPermOps /\ \E id \in 1..nextId, by \in Admins : CallRevoke(p, id, by)
    \/ Quiet(p) /\ clock < MaxPermOps /\ \E id \in 1..nextId, k \in GrantKeys, str \in BOOLEAN, by \in Admins : CallGrant(p, id, k, str, by)
    \/ Quiet(p) /\ clock < MaxPermOps /\ \E id \in 1..nextId, k \in GrantKeys, str \in BOOLEAN : CallRevokePermission(p, id, k, str)
    \/ Quiet(p) /\ clock < MaxPermOps /\ \E id \in 1..nextId : CallGrantBasic(p, id)
    \/ Quiet(p) /\ \E u \in Users, k \in {"view_users"}, o \in Orgs : CallCheck(p, u, k, o)
    \/ EngineStep(p)
    \/ PermStep(p)

PermSpec == PermInit /\ [][PermNext]_vars

\* an Agent row as assign_agent creates it and, when not active, as
\* revoke_agent leaves it
StoredAgent(u, o, active, t) ==
  IF active THEN NewAgent(u, o, "admin", t)
  ELSE Deactivated(NewAgent(u, o, "admin", t), t, "admin")

\* Agent tables for the permission queries: a row of u1 and a row of u2,
\* each active or revoked, and a revoked earlier row of u1; no two active
\* rows of one organisation or of one user (the Meta.constraints)
QueryTables ==
  {t \in {r1 @@ r2 @@ r3 :
            r1 \in {<<>>} \cup {1 :> StoredAgent("u1", "o1", FALSE, 1)},
            r2 \in {<<>>} \cup {2 :> StoredAgent("u1", o, a, 2) : o \in Orgs, a \in BOOLEAN},
            r3 \in {<<>>} \cup {3 :> StoredAgent("u2", o, a, 3) : o \in Orgs, a \in BOOLEAN}} :
     /\ \A o \in Orgs : Cardinality(ActiveOfOrg(t, o)) <= 1
     /\ \A u \in Users : Cardinality(ActiveOfUser(t, u)) <= 1}

\* the stores check_user_permission is asked about: any role of u1 (the
\* role of a user lags behind the Agent table between the statements of
\* assign_agent and revoke_agent), grants of view_users to any of the Agent
\* rows, direct grants to u1 and u2
QueryInit ==
  /\ clock = 0
  /\ proc = [p \in Procs |-> Idle]
  /\ agents \in QueryTables
  /\ nextId = 4
  /\ role \in {f \in [Users -> Roles] : f["u2"] = "user"}
  /\ \E S \in SUBSET DOMAIN agents :
       agentPerms = [a \in S |-> [agent |-> a, permission |-> "view_users",
                                  granted_by |-> "admin"]]
  /\ nextPermId = 4
  /\ catalog = Seeded
  /\ direct \in SUBSET {<<"u1", "view_users">>, <<"u1", "view_reports">>,
                         <<"u2", "view_users">>}
  /\ members = {}
  /\ orgActive = [o \in Orgs |-> TRUE]

QueryNext ==
  \E p \in Procs :
    \/ Quiet(p) /\ \E u \in {"u1"}, k \in QueryKeys, o \in Orgs \cup {NULL} : CallCheck(p, u, k, o)
    \/ Return(p)

QuerySpec == QueryInit /\ [][QueryNext]_vars

\* the stores the organisation resolution is asked about: as QueryInit, with
\* memberships of u1, organisations switched off (OrganisationDetailView
\* writes is_active), the grant of view_users on every Agent row or on none,
\* and the direct grant of view_reports to u1 or none
OrgQueryInit ==
  /\ clock = 0
  /\ proc = [p \in Procs |-> Idle]
  /\ agents \in QueryTables
  /\ nextId = 4
  /\ role \in {f \in [Users -> Roles] : f["u2"] = "user"}
  /\ \E S \in {{}, DOMAIN agents} :
       agentPerms = [a \in S |-> [agent |-> a, permission |-> "view_users",
                                  granted_by |-> "admin"]]
  /\ nextPermId = 4
  /\ catalog = Seeded
  /\ direct \in {{}, {<<"u1", "view_reports">>}}
  /\ members \in SUBSET {<<"u1", o>> : o \in Orgs}
  /\ orgActive \in [Orgs -> BOOLEAN]

\* a request result: the handler holds what the function returned
Answer(p, op, u, k, o, res) ==
  /\ proc[p].pc = "idle"
  /\ proc' = [proc EXCEPT ![p] =
       [Idle EXCEPT !.pc = "done", !.op = op, !.user = u, !.key = k, !.org = o,
                    !.status = "ok", !.result = res]]
  /\ UNCHANGED <<agents, role, nextId, clock, perms>>

CallAccessible(p, u) ==
  Answer(p, "get_user_accessible_organisations", u, NULL, NULL,
         get_user_accessible_organisations(role, agents, members, orgActive, u))

CallCanAccess(p, u, o) ==
  Answer(p, "can_user_access_organisation", u, NULL, o,
         can_user_access_organisation(role, agents, members, orgActive, u, o))

CallPermissionsFor(p, u, o) ==
  Answer(p, "get_user_permissions_for_organisation", u, NULL, o,
         get_user_permissions_for_organisation(role, agents, agentPerms, direct,
                                               catalog, u, o))

CallCanManage(p, u, o) ==
  Answer(p, "can_user_manage_organisation", u, NULL, o,
         can_user_manage_organisation(role, agents, u, o))

CallGate(p, u, o) ==
  Answer(p, "has_object_permission", u, NULL, o,
         has_object_permission(role, agents, members, orgActive, u, o))

OrgQueryNext ==
  \E p \in Procs :
    \/ Quiet(p) /\ \E u \in {"u1"}, k \in QueryKeys, o \in Orgs \cup {NULL} : CallCheck(p, u, k, o)
    \/ Quiet(p) /\ \E u \in {"u1"} : CallAccessible(p, u)
    \/ Quiet(p) /\ \E u \in {"u1"}, o \in Orgs : CallCanAccess(p, u, o)
    \/ Quiet(p) /\ \E u \in {"u1"}, o \in Orgs : CallPermissionsFor(p, u, o)
    \/ Quiet(p) /\ \E u \in {"u1"}, o \in Orgs : CallCanManage(p, u, o)
    \/ Quiet(p) /\ \E u \in {"u1"}, o \in Orgs : CallGate(p, u, o)
    \/ Return(p)

OrgQuerySpec == OrgQueryInit /\ [][OrgQueryNext]_vars

\* under SeqSpec no handler reaches the role write of sync_role_with_agent_status
SeqSyncNeverWrites == \A p \in Procs : proc[p].pc # "y_wr"

--------------------------------------------------------------------------
(* Properties *)

\* every handler is between operations or has returned from one
Quiescent == \A p \in Procs : proc[p].pc \in {"idle", "done"}

\* handler p has returned from a successful or failed call of operation op
Returned(p, op) == proc[p].pc = "done" /\ proc[p].op = op

\* the cached role of every non-superadmin user agrees with the Agent table
RolesAgree ==
  \A u \in Users :
    role[u] # "superadmin" => (role[u] = "superuser" <=> is_agent(agents, u))

\* C1: in every state reached by concurrent assign_agent and revoke_agent
\* calls, interleaved statement by statement, each Organisation has at most
\* one Agent row with is_active = true.
C1_OneActivePerOrganisation ==
  \A o \in Orgs : Cardinality(ActiveOfOrg(agents, o)) <= 1

\* two concurrent assign_agent calls for one organisation and different
\* users: one has inserted its row, the store has rejected the other's INSERT
C1_Witness ==
  \E p, q \in Procs :
    /\ p # q
    /\ proc[p].op = "assign_agent" /\ proc[q].op = "assign_agent"
    /\ proc[p].org = proc[q].org /\ proc[p].user # proc[q].user
    /\ proc[p].newId \in ActiveOfOrg(agents, proc[p].org)
    /\ proc[q].pc = "done" /\ proc[q].status = "IntegrityError"

\* C2: in every state reached by concurrent assign_agent calls (same user,
\* different organisations included), each User has at most one Agent row
\* with is_active = true.
C2_OneActivePerUser ==
  \A u \in Users : Cardinality(ActiveOfUser(agents, u)) <= 1

\* two concurrent assign_agent calls for one user and different
\* organisations: one has inserted its row, the other's INSERT is rejected
C2_Witness ==
  \E p, q \in Procs :
    /\ p # q
    /\ proc[p].op = "assign_agent" /\ proc[q].op = "assign_agent"
    /\ proc[p].user = proc[q].user /\ proc[p].org # proc[q].org
    /\ proc[p].newId \in ActiveOfUser(agents, proc[p].user)
    /\ proc[q].pc = "done" /\ proc[q].status = "IntegrityError"

\* C3: after any sequence of completed, non-overlapping operations that
\* change Agent rows (assign_agent, revoke_agent, agent_revoke_view, deletion
\* of a row), every user whose role is not superadmin has role 'superuser'
\* if and only if an active Agent row exists for that user.
C3_RoleIffActiveAgent == Quiescent => RolesAgree

\* a revocation through the template view, which calls no re-sync itself,
\* has returned and has taken the elevated role from the user
C3_Witness ==
  \E p \in Procs :
    /\ Returned(p, "agent_revoke_view") /\ proc[p].status = "ok"
    /\ proc[p].preRole[proc[p].user] = "superuser"
    /\ role[proc[p].user] = "user"

\* C4: the role of a user whose role is superadmin is never changed by
\* assign_agent, revoke_agent, saves or deletions of Agent rows.
C4_SuperadminSticky ==
  [][\A u \in Users : role[u] = "superadmin" => role'[u] = "superadmin"]_vars

\* C5: no state between the store writes of an assign_agent call shows a
\* partially applied assignment: a previously active row of the organisation
\* or of the user deactivated while the new row does not exist yet, or the
\* new row present while the user's role is not yet elevated.
C5_AssignAtomic ==
  \A p \in Procs :
    LET r == proc[p] IN
    (r.op = "assign_agent" /\ r.pc # "done") =>
      /\ ~ /\ r.newId = 0
           /\ \E i \in DOMAIN r.preAgents :
                /\ r.preAgents[i].is_active
                /\ r.preAgents[i].organisation = r.org \/ r.preAgents[i].user = r.user
                /\ i \in DOMAIN agents /\ ~agents[i].is_active
      /\ ~ /\ r.newId # 0
           /\ r.newId \in DOMAIN agents /\ agents[r.newId].is_active
           /\ role[r.user] # "superuser"

\* C6: once concurrently executed assign_agent and revoke_agent calls have
\* all run to completion, every non-superadmin user has role 'superuser' if
\* and only if that user has an active Agent row.
C6_RolesAgreeAfterRaces ==
  Quiescent =>
    \A u \in Users :
      role[u] # "superadmin" =>
        /\ is_agent(agents, u) => role[u] = "superuser"
        /\ ~is_agent(agents, u) => role[u] # "superuser"

\* C7: every Agent row with is_active = false has a non-null revoked_at,
\* whichever path deactivated it.
C7_InactiveHasRevokedAt ==
  \A i \in DOMAIN agents : ~agents[i].is_active => agents[i].revoked_at # 0

\* C8: when assign_agent(u, o, by) returns, whatever the prior state and the
\* prior role of u, u.role is 'superuser', u is an active agent and the
\* organisation u manages is o.
C8_AssignPostcondition ==
  \A p \in Procs :
    Returned(p, "assign_agent") =>
      /\ proc[p].status = "ok"
      /\ role[proc[p].user] = "superuser"
      /\ is_agent(agents, proc[p].user)
      /\ get_managed_organisation(agents, proc[p].user) = proc[p].org

\* assign_agent has returned for a user who was the active agent of another
\* organisation when it was called
C8_Witness ==
  \E p \in Procs :
    /\ Returned(p, "assign_agent")
    /\ get_managed_organisation(proc[p].preAgents, proc[p].user) \notin {NULL, proc[p].org}

\* C9: when assign_agent(u2, o, by) is called while another user u1 is the
\* active agent of o, then on return the former row (u1, o) is inactive with
\* revoked_by = by, u1.role is 'user' unless u1 is superadmin, and the one
\* active row of o is the new row (u2, o).
C9_EvictionPostcondition ==
  \A p \in Procs :
    LET r == proc[p] IN
    Returned(p, "assign_agent") =>
      \A i \in ActiveOfOrg(r.preAgents, r.org) :
        r.preAgents[i].user # r.user =>
          /\ i \in DOMAIN agents
          /\ ~agents[i].is_active
          /\ agents[i].revoked_by = r.by
          /\ r.preRole[r.preAgents[i].user] # "superadmin"
               => role[r.preAgents[i].user] = "user"
          /\ ActiveOfOrg(agents, r.org) = {r.newId}
          /\ agents[r.newId].user = r.user

\* assign_agent has returned after displacing another user's active row
C9_Witness ==
  \E p \in Procs :
    /\ Returned(p, "assign_agent")
    /\ \E i \in ActiveOfOrg(proc[p].preAgents, proc[p].org) :
         proc[p].preAgents[i].user # proc[p].user

\* C10: assign_agent(u, o, by) called when u is already the active agent of
\* o returns leaving exactly one active row for the pair (u, o), the new
\* one, at most one active row for o and for u, and u.role 'superuser'.
C10_ReassignSamePair ==
  \A p \in Procs :
    LET r == proc[p] IN
    (/\ Returned(p, "assign_agent")
     /\ \E i \in ActiveOfOrg(r.preAgents, r.org) : r.preAgents[i].user = r.user) =>
      /\ r.status = "ok"
      /\ ActiveOfOrg(agents, r.org) \cap ActiveOfUser(agents, r.user) = {r.newId}
      /\ Cardinality(ActiveOfOrg(agents, r.org)) = 1
      /\ Cardinality(ActiveOfUser(agents, r.user)) = 1
      /\ role[r.user] = "superuser"

\* assign_agent has returned for the pair that was already active: the old
\* row of the pair is now inactive beside the new one
C10_Witness ==
  \E p \in Procs :
    /\ Returned(p, "assign_agent")
    /\ \E i \in ActiveOfOrg(proc[p].preAgents, proc[p].org) :
         /\ proc[p].preAgents[i].user = proc[p].user
         /\ i \in DOMAIN agents /\ ~agents[i].is_active

\* C11: revoke_agent(id, by) called on a row that is already inactive (a
\* second revoke_agent on the same id) does not fail; on return the row is
\* still inactive, every role is as it was before the call, and revoked_at
\* and revoked_by hold the time and the revoker of this call.
C11_RevokeTwice ==
  \A p \in Procs :
    LET r == proc[p] IN
    (/\ Returned(p, "revoke_agent")
     /\ r.curId \in DOMAIN r.preAgents
     /\ ~r.preAgents[r.curId].is_active) =>
      /\ r.status = "ok"
      /\ r.curId \in DOMAIN agents
      /\ ~agents[r.curId].is_active
      /\ role = r.preRole
      /\ agents[r.curId].revoked_at = clock
      /\ agents[r.curId].revoked_by = r.by

\* a second revoke_agent has returned for a row that an earlier call had
\* stamped with another time and another revoker
C11_Witness ==
  \E p \in Procs :
    LET r == proc[p] IN
    /\ Returned(p, "revoke_agent")
    /\ r.curId \in DOMAIN r.preAgents
    /\ ~r.preAgents[r.curId].is_active
    /\ r.preAgents[r.curId].revoked_at \notin {0, clock}
    /\ r.preAgents[r.curId].revoked_by # r.by

\* C12: revoke_agent downgrades the row's user from 'superuser' to 'user'
\* only if that user holds no other active row. Revoking a historical
\* (inactive) row of a user who has an active assignment leaves the user's
\* role and the active row as they were; revoking the only active row of a
\* 'superuser' leaves role 'user' and is_agent() false.
C12_RevokeDowngradesOnlyLastRow ==
  \A p \in Procs :
    LET r == proc[p] IN
    (Returned(p, "revoke_agent") /\ r.curId \in DOMAIN r.preAgents) =>
      LET u == r.preAgents[r.curId].user
          others == ActiveOfUser(r.preAgents, u) \ {r.curId}
      IN /\ others # {} =>
              /\ role[u] = r.preRole[u]
              /\ \A j \in others : j \in DOMAIN agents /\ agents[j] = r.preAgents[j]
         /\ (r.preRole[u] = "superuser" /\ role[u] # "superuser") => others = {}
         /\ (others = {} /\ r.preRole[u] = "superuser") =>
              role[u] = "user" /\ ~is_agent(agents, u)

\* revoke_agent has returned for a historical row of a user who holds an
\* active row of another organisation and keeps the elevated role
C12_Witness ==
  \E p \in Procs :
    LET r == proc[p] IN
    /\ Returned(p, "revoke_agent") /\ r.status = "ok"
    /\ r.curId \in DOMAIN r.preAgents
    /\ ~r.preAgents[r.curId].is_active
    /\ ActiveOfUser(r.preAgents, r.preAgents[r.curId].user) # {}
    /\ role[r.preAgents[r.curId].user] = "superuser"

\* C13: no step of assign_agent or revoke_agent deletes an Agent row: every
\* row present before a step is present after it, with its user,
\* organisation, assigned_by and assigned_at unchanged (a revoked or evicted
\* assignment stays as an inactive row).
C13_RowsNeverDeleted ==
  [][\A i \in DOMAIN agents :
       /\ i \in DOMAIN agents'
       /\ agents'[i].user = agents[i].user
       /\ agents'[i].organisation = agents[i].organisation
       /\ agents'[i].assigned_by = agents[i].assigned_by
       /\ agents'[i].assigned_at = agents[i].assigned_at]_vars

\* assign_agent has returned after evicting a row that was active when it
\* was called; the row is still there, inactive, beside the new row
C13_Witness ==
  \E p \in Procs :
    LET r == proc[p] IN
    /\ Returned(p, "assign_agent") /\ r.status = "ok"
    /\ \E i \in DOMAIN r.preAgents :
         /\ r.preAgents[i].is_active
         /\ i \in DOMAIN agents /\ ~agents[i].is_active
         /\ agents[i].user = r.preAgents[i].user
         /\ agents[i].organisation = r.preAgents[i].organisation
    /\ Cardinality(DOMAIN agents) > Cardinality(DOMAIN r.preAgents)

\* C14: when an assign_agent call fails after it has written (its INSERT is
\* rejected by a uniqueness constraint because a concurrent assign_agent
\* inserted first), none of its earlier effects persist: no row that was
\* active when it was called and that the call itself deactivated is left
\* inactive.
C14_FailedAssignLeavesNoTrace ==
  \A p \in Procs :
    LET r == proc[p] IN
    (Returned(p, "assign_agent") /\ r.status = "IntegrityError") =>
      ~ /\ r.curId \in DOMAIN r.preAgents
        /\ r.preAgents[r.curId].is_active
        /\ r.curId \in DOMAIN agents
        /\ ~agents[r.curId].is_active

\* the role the re-sync rule gives user u: superadmin stays, otherwise
\* 'superuser' iff an active row of u exists, otherwise 'user'
ExpectedRole(before, rows, u) ==
  IF before = "superadmin" THEN "superadmin"
  ELSE IF is_agent(rows, u) THEN "superuser" ELSE "user"

\* C15: whichever operation has taken an active row from a user
\* (revoke_agent, eviction inside assign_agent, agent_revoke_view, deletion
\* of the row), on its return the user's role is the same function of the
\* active rows that remain: superadmin stays superadmin, otherwise
\* 'superuser' iff an active row of the user remains, otherwise 'user'.
C15_PathsConverge ==
  \A p \in Procs :
    LET r == proc[p] IN
    (r.pc = "done" /\ r.status = "ok") =>
      \A i \in DOMAIN r.preAgents :
        (/\ r.preAgents[i].is_active
         /\ i \in DOMAIN agents => ~agents[i].is_active) =>
          LET u == r.preAgents[i].user
          IN role[u] = ExpectedRole(r.preRole[u], agents, u)

\* the deletion of a user's only active row has returned and the user, who
\* had the elevated role, holds the regular one
C15_Witness ==
  \E p \in Procs :
    LET r == proc[p] IN
    /\ Returned(p, "delete") /\ r.status = "ok"
    /\ r.preAgents[r.curId].is_active
    /\ r.curId \notin DOMAIN agents
    /\ r.preRole[r.preAgents[r.curId].user] = "superuser"
    /\ role[r.preAgents[r.curId].user] = "user"

\* C16: grant_permission is idempotent: in every reachable state no two
\* AgentPermissions rows hold the same (agent, permission) pair, and every
\* grant_permission call given a Permission object or the key string of an
\* existing Permission returns without error leaving exactly one row for
\* its pair, however often the pair was granted before.
C16_GrantIdempotent ==
  /\ \A i, j \in DOMAIN agentPerms :
       (/\ agentPerms[i].agent = agentPerms[j].agent
        /\ agentPerms[i].permission = agentPerms[j].permission) => i = j
  /\ \A p \in Procs :
       LET r == proc[p] IN
       (Returned(p, "grant_permission") /\ r.key \in catalog) =>
         /\ r.status = "ok"
         /\ Cardinality(GrantsOf(agentPerms, r.curId, r.key)) = 1

\* grant_permission has returned for a pair that was granted before the call
C16_Witness ==
  \E p \in Procs :
    LET r == proc[p] IN
    /\ Returned(p, "grant_permission") /\ r.status = "ok"
    /\ GrantsOf(r.prePerms, r.curId, r.key) # {}
    /\ Cardinality(GrantsOf(agentPerms, r.curId, r.key)) = 1

\* the lookup of the call of handler p finds nothing: revoke_agent with the
\* id of no Agent row, grant_permission / revoke_permission with a key
\* string no Permission row has
LookupFails(p) ==
  LET r == proc[p] IN
  \/ r.op = "revoke_agent" /\ r.curId \notin DOMAIN r.preAgents
  \/ /\ r.op \in {"grant_permission", "revoke_permission"}
     /\ r.isStr /\ r.key \notin catalog

\* C17: a failed lookup is surfaced and changes nothing: revoke_agent with
\* an id of no Agent row, and grant_permission / revoke_permission with a
\* key string absent from the Permission table, return to the caller with
\* DoesNotExist (NotFound), and the Agent rows, the AgentPermissions rows
\* and the roles are as they were before the call.
C17_FailedLookupSurfaced ==
  \A p \in Procs :
    (proc[p].pc = "done" /\ LookupFails(p)) =>
      /\ proc[p].status = "DoesNotExist"
      /\ agents = proc[p].preAgents
      /\ role = proc[p].preRole
      /\ agentPerms = proc[p].prePerms

\* grant_permission has returned DoesNotExist for an unknown key string
\* while the agent holds grants and the Permission table is seeded
C17_Witness ==
  \E p \in Procs :
    /\ Returned(p, "grant_permission") /\ LookupFails(p)
    /\ proc[p].status = "DoesNotExist"
    /\ catalog # {}
    /\ GrantsOfAgent(agentPerms, proc[p].curId) # {}

\* C18: when assign_agent has superseded an active Agent row, the
\* AgentPermissions rows of that row are attached to it unchanged, the new
\* row assign_agent returns has no AgentPermissions rows, and
\* get_agent_permissions of the new agent's user is empty: no key of the
\* predecessor's grants has passed to the new agent.
C18_GrantsStayWithSuperseded ==
  \A p \in Procs :
    LET r == proc[p] IN
    (Returned(p, "assign_agent") /\ r.status = "ok") =>
      /\ \A i \in DOMAIN r.preAgents :
           (r.preAgents[i].is_active /\ i \in DOMAIN agents /\ ~agents[i].is_active) =>
             /\ GrantsOfAgent(agentPerms, i) = GrantsOfAgent(r.prePerms, i)
             /\ \A j \in GrantsOfAgent(agentPerms, i) : agentPerms[j] = r.prePerms[j]
      /\ GrantsOfAgent(agentPerms, r.newId) = {}
      /\ get_agent_permissions(agents, agentPerms, r.user) = {}

\* assign_agent has returned after superseding another user's active row
\* that holds grants
C18_Witness ==
  \E p \in Procs :
    LET r == proc[p] IN
    /\ Returned(p, "assign_agent") /\ r.status = "ok"
    /\ \E i \in DOMAIN r.preAgents :
         /\ r.preAgents[i].is_active /\ ~agents[i].is_active
         /\ r.preAgents[i].user # r.user
         /\ GrantsOfAgent(agentPerms, i) # {}

\* C19: for a user whose role is superadmin, check_user_permission is true
\* for every key (keys of no Permission row included) and every
\* organisation or none, whatever Agent rows and grants reference the user.
C19_SuperadminBypass ==
  \A p \in Procs :
    (Returned(p, "check_user_permission") /\ role[proc[p].user] = "superadmin") =>
      proc[p].result = TRUE

\* a superadmin who holds an active Agent row of one organisation has asked
\* for a key of no Permission row in the other organisation
C19_Witness ==
  \E p \in Procs :
    LET r == proc[p] IN
    /\ Returned(p, "check_user_permission") /\ role[r.user] = "superadmin"
    /\ r.key = NoSuchKey
    /\ is_agent(agents, r.user)
    /\ r.org \notin {NULL, get_managed_organisation(agents, r.user)}
    /\ r.result = TRUE

\* C20: for a user who is no superadmin and has an active Agent row, and a
\* given organisation o, check_user_permission(user, key, o) is true iff
\* the active row is a row of o and key is a direct grant of the user or a
\* grant of that row; it is false for another organisation even when key
\* is a direct grant.
C20_AgentScopedToManagedOrg ==
  \A p \in Procs :
    LET r == proc[p] IN
    (/\ Returned(p, "check_user_permission")
     /\ role[r.user] # "superadmin"
     /\ r.org # NULL
     /\ \E i \in DOMAIN agents : agents[i].user = r.user /\ agents[i].is_active) =>
      (r.result = TRUE <=>
         \E i \in DOMAIN agents :
           /\ agents[i].user = r.user /\ agents[i].is_active
           /\ agents[i].organisation = r.org
           /\ \/ <<r.user, r.key>> \in direct
              \/ \E j \in DOMAIN agentPerms :
                   agentPerms[j].agent = i /\ agentPerms[j].permission = r.key)

\* an agent has asked, for an organisation that is not the managed one, for
\* a key held as a direct grant, and is refused
C20_Witness ==
  \E p \in Procs :
    LET r == proc[p] IN
    /\ Returned(p, "check_user_permission")
    /\ role[r.user] = "superuser"
    /\ is_agent(agents, r.user)
    /\ r.org \notin {NULL, get_managed_organisation(agents, r.user)}
    /\ <<r.user, r.key>> \in direct
    /\ r.result = FALSE

\* C21: for a user who is no superadmin, when no organisation is given or
\* the user has no active Agent row, check_user_permission(user, key,
\* organisation) is true iff key is a direct grant of the user; a key an
\* active agent holds only as a grant of the Agent row does not make the
\* result true when no organisation is given.
C21_DirectGrantsOnly ==
  \A p \in Procs :
    LET r == proc[p] IN
    (/\ Returned(p, "check_user_permission")
     /\ role[r.user] # "superadmin"
     /\ r.org = NULL \/ ~is_agent(agents, r.user)) =>
      (r.result = TRUE <=> <<r.user, r.key>> \in direct)

\* C22: agent grants authorize only while their Agent row is active: once
\* the row of user u for organisation o is inactive (revoke_agent, or
\* eviction by assign_agent), check_user_permission(u, key, o) is false
\* for every key u holds only through the AgentPermissions rows of that
\* row, which still exist.
C22_GrantsDieWithAgent ==
  \A p \in Procs :
    LET r == proc[p] IN
    (/\ Returned(p, "check_user_permission")
     /\ role[r.user] # "superadmin"
     /\ \E i \in DOMAIN agents :
          /\ agents[i].user = r.user /\ agents[i].organisation = r.org
          /\ ~agents[i].is_active
          /\ GrantsOf(agentPerms, i, r.key) # {}
     /\ <<r.user, r.key>> \notin direct
     /\ \A a \in ActiveOfUser(agents, r.user) : GrantsOf(agentPerms, a, r.key) = {}) =>
      r.result = FALSE

\* a check for the organisation of a revoked Agent row whose grant of the
\* key is still stored has returned false, the user holding no active row
C22_Witness ==
  \E p \in Procs :
    LET r == proc[p] IN
    /\ Returned(p, "check_user_permission")
    /\ r.result = FALSE
    /\ ~is_agent(agents, r.user)
    /\ \E i \in DOMAIN agents :
         /\ agents[i].user = r.user /\ agents[i].organisation = r.org
         /\ ~agents[i].is_active /\ agents[i].revoked_at > 0
         /\ GrantsOf(agentPerms, i, r.key) # {}

\* C23: for a user who is neither superadmin nor an active agent,
\* check_user_permission gives the same answer with and without an organisation,
\* namely whether the key is a direct grant, also for an organisation the user
\* is no member of and cannot access
C23_NonAgentOrgIrrelevant ==
  \A p \in Procs :
    LET r == proc[p] IN
    (/\ Returned(p, "check_user_permission")
     /\ role[r.user] # "superadmin"
     /\ ~is_agent(agents, r.user)) =>
      /\ r.result = (<<r.user, r.key>> \in direct)
      /\ r.result = check_user_permission(role, agents, agentPerms, direct,
                                          r.user, r.key, NULL)

C23_Witness ==
  \E p \in Procs :
    LET r == proc[p] IN
    /\ Returned(p, "check_user_permission")
    /\ role[r.user] # "superadmin"
    /\ ~is_agent(agents, r.user)
    /\ r.org \in Orgs
    /\ <<r.user, r.org>> \notin members
    /\ ~can_user_access_organisation(role, agents, members, orgActive, r.user, r.org)
    /\ <<r.user, r.key>> \in direct
    /\ r.result = TRUE

\* the organisations get_user_accessible_organisations returns, per branch,
\* with the is_active filter the code applies in each of them
AccessibleAsCoded(u) ==
  IF role[u] = "superadmin" THEN {o \in Orgs : orgActive[o]}
  ELSE IF ActiveOfUser(agents, u) # {}
  THEN {agents[i].organisation : i \in {a \in ActiveOfUser(agents, u) :
                                         orgActive[agents[a].organisation]}}
  ELSE {o \in Orgs : <<u, o>> \in members /\ orgActive[o]}

\* C24 (amended): get_user_accessible_organisations returns the active
\* organisations for a superadmin, the managed organisation if it is active and
\* nothing otherwise for an active agent (never a membership organisation), and
\* the active membership organisations for anyone else
C24_AccessibleActiveOnly ==
  \A p \in Procs :
    Returned(p, "get_user_accessible_organisations") =>
      proc[p].result = AccessibleAsCoded(proc[p].user)

\* C24 (as stated): for a non-superadmin with an active Agent row the result
\* is exactly the one managed organisation
C24_AgentSeesManagedOrg ==
  \A p \in Procs :
    LET r == proc[p] IN
    (/\ Returned(p, "get_user_accessible_organisations")
     /\ role[r.user] # "superadmin"
     /\ ActiveOfUser(agents, r.user) # {}) =>
      r.result = {agents[i].organisation : i \in ActiveOfUser(agents, r.user)}

C24_Witness ==
  \E p \in Procs :
    LET r == proc[p] IN
    /\ Returned(p, "get_user_accessible_organisations")
    /\ role[r.user] # "superadmin"
    /\ \E i \in ActiveOfUser(agents, r.user) : ~orgActive[agents[i].organisation]
    /\ \E o \in Orgs : <<r.user, o>> \in members /\ orgActive[o]
    /\ r.result = {}

\* C25: can_user_manage_organisation(u, o) is true exactly when u is
\* superadmin or u's active Agent row is for o; membership, an inactive Agent
\* row for o and permission grants do not make it true
C25_ManageIffSuperadminOrAgent ==
  \A p \in Procs :
    LET r == proc[p] IN
    Returned(p, "can_user_manage_organisation") =>
      (r.result = TRUE <=>
         \/ role[r.user] = "superadmin"
         \/ \E i \in DOMAIN agents :
              /\ agents[i].user = r.user
              /\ agents[i].organisation = r.org
              /\ agents[i].is_active)

C25_Witness ==
  \E p \in Procs :
    LET r == proc[p] IN
    /\ Returned(p, "can_user_manage_organisation")
    /\ <<r.user, r.org>> \in members
    /\ \E i \in DOMAIN agents :
         /\ agents[i].user = r.user /\ agents[i].organisation = r.org
         /\ ~agents[i].is_active
         /\ GrantsOfAgent(agentPerms, i) # {}
    /\ get_direct_permissions(direct, r.user) # {}
    /\ r.result = FALSE

\* C26: get_user_permissions_for_organisation(u, o) is the whole catalog for a
\* superadmin, exactly the grants of the active Agent row for a non-superadmin
\* active agent of o, and exactly the direct grants (whatever o) for a
\* non-superadmin without an active Agent row
C26_PermissionsForOrganisation ==
  \A p \in Procs :
    LET r == proc[p]
        act == {i \in DOMAIN agents : agents[i].user = r.user /\ agents[i].is_active}
    IN
    Returned(p, "get_user_permissions_for_organisation") =>
      /\ role[r.user] = "superadmin" => r.result = catalog
      /\ (/\ role[r.user] # "superadmin"
          /\ \E i \in act : agents[i].organisation = r.org) =>
           r.result = {agentPerms[g].permission :
                         g \in {x \in DOMAIN agentPerms : agentPerms[x].agent \in act}}
      /\ (role[r.user] # "superadmin" /\ act = {}) =>
           r.result = {e[2] : e \in {x \in direct : x[1] = r.user}}

C26_Witness ==
  \E p \in Procs :
    LET r == proc[p] IN
    /\ Returned(p, "get_user_permissions_for_organisation")
    /\ role[r.user] # "superadmin"
    /\ get_managed_organisation(agents, r.user) = r.org
    /\ <<r.user, "view_reports">> \in direct
    /\ r.result = {"view_users"}

\* C28: CanAccessOrganisation.has_object_permission returns what
\* can_user_access_organisation returns, for every user (superadmin included)
\* and every organisation (active or not)
C28_GateEqualsService ==
  \A p \in Procs :
    LET r == proc[p] IN
    Returned(p, "has_object_permission") =>
      r.result = can_user_access_organisation(role, agents, members, orgActive,
                                              r.user, r.org)

\* C30: whoever can manage an organisation can access it, whether the
\* organisation is active or not
C30_ManageImpliesAccess ==
  \A p \in Procs :
    LET r == proc[p] IN
    (Returned(p, "can_user_manage_organisation") /\ r.result = TRUE) =>
      can_user_access_organisation(role, agents, members, orgActive, r.user, r.org)

\* the call's user was, when the call began, the active agent of an
\* organisation other than the one asked for
AgentElsewhere(r) ==
  get_managed_organisation(r.preAgents, r.user) \notin {NULL, r.org}

\* C27: assigning a user who is the active agent of another organisation is
\* rejected on the validated path (AssignAgentSerializer, then assign_agent),
\* with Agent rows and roles unchanged; the direct call of assign_agent moves
\* the user: the previous row is deactivated with revoked_at and revoked_by
\* stamped, the previous organisation has no active agent, and a new active
\* row exists for the new organisation
C27_ValidatedPathRejectsMove ==
  \A p \in Procs :
    LET r == proc[p] IN
    /\ (Returned(p, "AssignAgentView") /\ AgentElsewhere(r)) =>
         /\ r.status = "ValidationError"
         /\ agents = r.preAgents
         /\ role = r.preRole
    /\ (Returned(p, "assign_agent") /\ AgentElsewhere(r)) =>
         /\ r.status = "ok"
         /\ \A i \in ActiveOfUser(r.preAgents, r.user) :
              /\ i \in DOMAIN agents
              /\ ~agents[i].is_active
              /\ agents[i].revoked_at > 0
              /\ agents[i].revoked_by = r.by
              /\ ActiveOfOrg(agents, agents[i].organisation) = {}
         /\ \E n \in DOMAIN agents \ DOMAIN r.preAgents :
              /\ agents[n].user = r.user
              /\ agents[n].organisation = r.org
              /\ agents[n].is_active
              /\ ActiveOfUser(agents, r.user) = {n}

\* a user moved by a direct call, whose move back is then rejected on the
\* validated path
C27_Witness ==
  \E p \in Procs :
    LET r == proc[p] IN
    /\ Returned(p, "AssignAgentView")
    /\ AgentElsewhere(r)
    /\ r.status = "ValidationError"
    /\ \E i, n \in DOMAIN agents :
         /\ i < n
         /\ agents[i].user = r.user /\ agents[n].user = r.user
         /\ agents[i].organisation = r.org
         /\ ~agents[i].is_active /\ agents[i].revoked_by \in Admins
         /\ agents[n].is_active /\ agents[n].organisation # r.org

\* C29: an inactive Agent row never becomes active again: every step leaves
\* the inactive rows that still exist inactive, and a repeated assignment of
\* the same pair makes a new row
C29_InactiveStaysInactive ==
  [][\A i \in DOMAIN agents :
       (~agents[i].is_active /\ i \in DOMAIN agents') => ~agents'[i].is_active]_vars

\* a pair assigned again: its old row is inactive beside its new active row
C29_Witness ==
  \E i, j \in DOMAIN agents :
    /\ i < j
    /\ agents[i].user = agents[j].user
    /\ agents[i].organisation = agents[j].organisation
    /\ ~agents[i].is_active
    /\ agents[j].is_active

====
